---- MODULE Spec2Model ----
(***************************************************************************)
(* Model of Clementine's AFC device transfer code                          *)
(* (src/src/devices/afctransfer.h: the AfcTransfer declaration followed by *)
(* the iMobileDeviceConnection implementation).                            *)
(*                                                                         *)
(* Three state machines share the pure functions below:                    *)
(*   AllocSpec  - iMobileDeviceConnection::GetUnusedFilename               *)
(*   ListSpec   - iMobileDeviceConnection::ReadDirectory                   *)
(*   MirrorSpec - AfcTransfer (declared in the header; its bodies are the  *)
(*                DirectoryMirror / TransferSession of the design text)    *)
(*                                                                         *)
(* A QString is a sequence of one-character (or literal) tokens, so that   *)
(* concatenation is \o; a null QString is Null (for a single value) or the *)
(* empty sequence (QString() returned as a path).                          *)
(***************************************************************************)
EXTENDS Integers, Sequences, FiniteSets, TLC

\* ------------------------------------------------------------------ bounds
\* number of F.. directories the device can hold
MaxBuckets == 2
\* qrand() returns a value in 0..QRandMax
QRandMax == 3
\* libgpod: names are "libgpod" + (qrand() % kRandMax); 999999 in the source
kRandMax == 2
\* entries a directory listing can hold
MaxEntries == 2

\* ------------------------------------------------------- QString helpers
Null == "<null>"
NullPath == << >>

DigitChars == <<"0", "1", "2", "3", "4", "5", "6", "7", "8", "9">>

RECURSIVE Digits(_)
Digits(n) ==
  IF n < 10 THEN <<DigitChars[n + 1]>>
  ELSE Digits(n \div 10) \o <<DigitChars[(n % 10) + 1]>>

RECURSIVE ZeroPad(_, _)
ZeroPad(s, w) == IF Len(s) >= w THEN s ELSE ZeroPad(<<"0">> \o s, w)

\* QString::sprintf("%0<w>d", n) for n >= 0
SprintfD(n, w) == ZeroPad(Digits(n), w)

\* dir.sprintf("/iTunes_Control/Music/F%02d", n)
MusicDir(n) == <<"/iTunes_Control/Music/F">> \o SprintfD(n, 2)

\* QString::toLower on the characters the inputs use
ToLower(s) ==
  [i \in 1..Len(s) |->
     CASE s[i] = "M" -> "m"
       [] s[i] = "P" -> "p"
       [] s[i] = "S" -> "s"
       [] OTHER -> s[i]]

\* QString::section('.', -1, -1): the last '.'-separated field
SectionLast(s) ==
  LET dots == {i \in 1..Len(s) : s[i] = "."}
  IN  IF dots = {} THEN s
      ELSE SubSeq(s, (CHOOSE i \in dots : \A j \in dots : j <= i) + 1, Len(s))

\* metadata.filename().section('.', -1, -1).toLower(), defaulting to mp3
Extension(songFile) ==
  LET e == ToLower(SectionLast(songFile))
  IN  IF e = << >> THEN <<"m", "p", "3">> ELSE e

\* filename.sprintf("libgpod%06d", r % kRandMax); filename += "." + extension
CandidateName(r, ext) ==
  <<"libgpod">> \o SprintfD(r % kRandMax, 6) \o <<".">> \o ext

\* dir + "/" + filename
Join(d, name) == d \o <<"/">> \o name

\* ------------------------------------------------ device metadata protocol
\* what afc_get_file_info answers for a path: an error, or a NULL-terminated
\* list of alternating keys and values
ErrInfo == [err |-> TRUE,  infolist |-> << >>]
DirInfo == [err |-> FALSE, infolist |-> <<"st_size", "0", "st_ifmt", "S_IFDIR">>]
FileInfo == [err |-> FALSE, infolist |-> <<"st_ifmt", "S_IFREG", "st_size", "9">>]
LinkInfo == [err |-> FALSE, infolist |-> <<"st_ifmt", "S_IFLNK">>]
\* a list that carries no st_ifmt key (st_ifmt appears only as a value)
NoFmtInfo == [err |-> FALSE, infolist |-> <<"st_size", "st_ifmt", "S_IFDIR", "1">>]
\* a type the classifier does not know
BlkInfo == [err |-> FALSE, infolist |-> <<"st_ifmt", "S_IFBLK">>]

\* the answer of device state dev for path
InfoOf(dev, path) == IF path \in DOMAIN dev THEN dev[path] ELSE ErrInfo

RECURSIVE ScanInfo(_, _, _, _, _)
ScanInfo(list, i, last_key, ret, key) ==
  IF i > Len(list) THEN ret
  ELSE IF last_key = Null
       THEN ScanInfo(list, i + 1, list[i], ret, key)
       ELSE ScanInfo(list, i + 1, Null,
                     IF last_key = key THEN list[i] ELSE ret, key)

\* iMobileDeviceConnection::GetFileInfo on a device answer
GetFileInfoOf(info, key) ==
  IF info.err THEN Null ELSE ScanInfo(info.infolist, 1, Null, Null, key)

GetFileInfo(dev, path, key) == GetFileInfoOf(InfoOf(dev, path), key)

\* iMobileDeviceConnection::Exists
Exists(dev, path) == GetFileInfo(dev, path, "st_ifmt") # Null

\* ------------------------------------------------------------- variables
VARIABLES
  \* GetUnusedFilename: position, device metadata now and at the call,
  \* the Song's file name, the locals, the returned path, the qWarning text,
  \* the paths handed to Exists and the names generated, and whether the
  \* device changed during the call
  pc, fs, fs0, songFile, total_musicdirs, dir_num, dir, extension, filename,
  result, warning, dirProbes, fileProbes, tried, changed,
  \* ReadDirectory: position, the filters argument, whether
  \* afc_read_directory failed, the names and the per-name metadata answers
  \* the device has given so far, ret, and the positions ret was taken from
  lpc, filters, readErr, rawList, infos, ret, keptAt,
  \* AfcTransfer: position, direction, important_directories_, the source
  \* tree's metadata, the entries whose stream copy fails, the directory
  \* whose listing fails, the index of the current top-level directory, the
  \* work stack, the entries of the directory being processed, the outcome
  \* sets of the current top-level directory, the directories listed, the
  \* file copies attempted in order, the signals emitted, the top-level
  \* directories begun, and the result recorded for each
  mpc, direction, tops, tree, failSet, listFail, topIdx, stack, pending,
  curDir, copied, failed, descended, attempts, events, started, results

avars == <<pc, fs, fs0, songFile, total_musicdirs, dir_num, dir, extension,
           filename, result, warning, dirProbes, fileProbes, tried, changed>>

lvars == <<lpc, filters, readErr, rawList, infos, ret, keptAt>>

mvars == <<mpc, direction, tops, tree, failSet, listFail, topIdx, stack,
           pending, curDir, copied, failed, descended, attempts, events,
           started, results>>

vars == <<avars, lvars, mvars>>

\* a machine that is not the one under study stays as constructed
AllocIdle ==
  /\ pc = "idle"
  /\ fs = << >>
  /\ fs0 = << >>
  /\ songFile = << >>
  /\ total_musicdirs = 0
  /\ dir_num = 0
  /\ dir = << >>
  /\ extension = << >>
  /\ filename = << >>
  /\ result = << >>
  /\ warning = "none"
  /\ dirProbes = << >>
  /\ fileProbes = {}
  /\ tried = {}
  /\ changed = FALSE

ListIdle ==
  /\ lpc = "idle"
  /\ filters = {}
  /\ readErr = FALSE
  /\ rawList = << >>
  /\ infos = << >>
  /\ ret = << >>
  /\ keptAt = << >>

MirrorIdle ==
  /\ mpc = "idle"
  /\ direction = "none"
  /\ tops = << >>
  /\ tree = << >>
  /\ failSet = {}
  /\ listFail = {}
  /\ topIdx = 0
  /\ stack = << >>
  /\ pending = << >>
  /\ curDir = << >>
  /\ copied = {}
  /\ failed = {}
  /\ descended = {}
  /\ attempts = << >>
  /\ events = << >>
  /\ started = << >>
  /\ results = << >>

\* ------------------------------------------------------ GetUnusedFilename
\* the two qWarning() texts; they are what tells the two empty returns apart
NoBucketsWarning == "No 'F..'' directories found on iPod"
BucketVanishedWarning == "Music directory doesn't exist:"

SongFiles == { <<"s", ".", "M", "P", "3">>, <<"s", ".">>, <<"S">> }

BucketIds == 0..(MaxBuckets - 1)

FilePath(b, n, ext) == Join(MusicDir(b), CandidateName(n, ext))

\* the device paths the model tracks
DevicePaths ==
  {MusicDir(b) : b \in BucketIds}
    \cup {FilePath(b, n, <<"m", "p", "3">>) : b \in BucketIds, n \in 0..(kRandMax - 1)}

\* a device on which the buckets in B and the files in F are present
DeviceWith(B, F) ==
  [p \in DevicePaths |->
     IF \E b \in B : p = MusicDir(b) THEN DirInfo
     ELSE IF \E f \in F : p = FilePath(f[1], f[2], <<"m", "p", "3">>) THEN FileInfo
     ELSE ErrInfo]

AllocInit ==
  /\ pc = "probe"
  /\ \E B \in SUBSET BucketIds :
       \E F \in SUBSET (B \X (0..(kRandMax - 1))) :
         /\ fs = DeviceWith(B, F)
         /\ fs0 = fs
  /\ songFile \in SongFiles
  /\ total_musicdirs = 0
  /\ dir_num = 0
  /\ dir = NullPath
  /\ extension = NullPath
  /\ filename = NullPath
  /\ result = NullPath
  /\ warning = "none"
  /\ dirProbes = << >>
  /\ fileProbes = {}
  /\ tried = {}
  /\ changed = FALSE
  /\ ListIdle
  /\ MirrorIdle

\* for ( ; ; ++total_musicdirs): the directory exists, count it
ProbeNext ==
  /\ pc = "probe"
  /\ Exists(fs, MusicDir(total_musicdirs))
  /\ total_musicdirs' = total_musicdirs + 1
  /\ dirProbes' = Append(dirProbes, MusicDir(total_musicdirs))
  /\ UNCHANGED <<pc, fs, fs0, songFile, dir_num, dir, extension, result,
                 warning, fileProbes, tried, changed>>
  /\ UNCHANGED <<filename, lvars, mvars>>

\* ProbeEnd without the total_musicdirs <= 0 test: falls through to the
\* filename loop with the first directory
ProbeEnd_NoZeroTest ==
  /\ pc = "probe"
  /\ ~Exists(fs, MusicDir(total_musicdirs))
  /\ dirProbes' = Append(dirProbes, MusicDir(total_musicdirs))
  /\ IF total_musicdirs <= 0
     THEN /\ dir' = MusicDir(0)
          /\ extension' = Extension(songFile)
          /\ pc' = "gen"
     ELSE /\ pc' = "pick"
          /\ UNCHANGED <<dir, extension>>
  /\ UNCHANGED <<fs, fs0, songFile, total_musicdirs, dir_num, warning, result,
                 fileProbes, tried, changed>>
  /\ UNCHANGED <<filename, lvars, mvars>>

\* if (!Exists(dir)) break; then the total_musicdirs <= 0 test
ProbeEnd ==
  /\ pc = "probe"
  /\ ~Exists(fs, MusicDir(total_musicdirs))
  /\ dirProbes' = Append(dirProbes, MusicDir(total_musicdirs))
  /\ IF total_musicdirs <= 0
     THEN /\ warning' = NoBucketsWarning
          /\ result' = NullPath
          /\ pc' = "done"
     ELSE /\ pc' = "pick"
          /\ UNCHANGED <<warning, result>>
  /\ UNCHANGED <<fs, fs0, songFile, total_musicdirs, dir_num, dir, extension,
                 fileProbes, tried, changed>>
  /\ UNCHANGED <<filename, lvars, mvars>>

\* PickBucket with qrand() % (total_musicdirs + 1) and no re-check
PickBucket_OffByOne(r) ==
  /\ pc = "pick"
  /\ dir_num' = r % (total_musicdirs + 1)
  /\ dir' = MusicDir(r % (total_musicdirs + 1))
  /\ extension' = Extension(songFile)
  /\ pc' = "gen"
  /\ UNCHANGED <<fs, fs0, songFile, total_musicdirs, warning, result,
                 dirProbes, fileProbes, tried, changed>>
  /\ UNCHANGED <<filename, lvars, mvars>>

\* Pick one at random, re-check it, and work out the extension
PickBucket(r) ==
  /\ pc = "pick"
  /\ dir_num' = r % total_musicdirs
  /\ dir' = MusicDir(r % total_musicdirs)
  /\ dirProbes' = Append(dirProbes, MusicDir(r % total_musicdirs))
  /\ IF ~Exists(fs, MusicDir(r % total_musicdirs))
     THEN /\ warning' = BucketVanishedWarning
          /\ result' = NullPath
          /\ pc' = "done"
          /\ UNCHANGED extension
     ELSE /\ extension' = Extension(songFile)
          /\ pc' = "gen"
          /\ UNCHANGED <<warning, result>>
  /\ UNCHANGED <<fs, fs0, songFile, total_musicdirs, fileProbes, tried,
                 changed>>
  /\ UNCHANGED <<filename, lvars, mvars>>

\* GenCandidate with the loop's exit test inverted (if (Exists(...)) break)
GenCandidate_Inverted(r) ==
  /\ pc = "gen"
  /\ filename' = CandidateName(r, extension)
  /\ tried' = tried \cup {filename'}
  /\ fileProbes' = fileProbes \cup {Join(dir, filename')}
  /\ IF Exists(fs, Join(dir, filename'))
     THEN /\ result' = Join(dir, filename')
          /\ pc' = "done"
     ELSE UNCHANGED <<result, pc>>
  /\ UNCHANGED <<fs, fs0, songFile, total_musicdirs, dir_num, dir, extension,
                 warning, dirProbes, changed>>
  /\ UNCHANGED <<lvars, mvars>>

\* one turn of the forever loop
GenCandidate(r) ==
  /\ pc = "gen"
  /\ filename' = CandidateName(r, extension)
  /\ tried' = tried \cup {filename'}
  /\ fileProbes' = fileProbes \cup {Join(dir, filename')}
  /\ IF ~Exists(fs, Join(dir, filename'))
     THEN /\ result' = Join(dir, filename')
          /\ pc' = "done"
     ELSE UNCHANGED <<result, pc>>
  /\ UNCHANGED <<fs, fs0, songFile, total_musicdirs, dir_num, dir, extension,
                 warning, dirProbes, changed>>
  /\ UNCHANGED <<lvars, mvars>>

\* the device changes under the allocator (another client of the device)
Interfere(p, info) ==
  /\ pc \in {"probe", "pick", "gen"}
  /\ ~changed
  /\ fs[p] # info
  /\ fs' = [fs EXCEPT ![p] = info]
  /\ changed' = TRUE
  /\ UNCHANGED <<pc, fs0, songFile, total_musicdirs, dir_num, dir, extension,
                 result, warning, dirProbes, fileProbes, tried>>
  /\ UNCHANGED <<filename, lvars, mvars>>

AllocNext ==
  \/ ProbeNext
  \/ ProbeEnd
  \/ \E r \in 0..QRandMax : PickBucket(r)
  \/ \E r \in 0..QRandMax : GenCandidate(r)
  \/ \E p \in DevicePaths : \E info \in {ErrInfo, DirInfo, FileInfo} : Interfere(p, info)

AllocSpec == AllocInit /\ [][AllocNext]_vars

\* the allocator runs on its worker thread until it returns, and qrand()
\* sooner or later yields every value of its range
AllocStep ==
  \/ ProbeNext
  \/ ProbeEnd
  \/ \E r \in 0..QRandMax : PickBucket(r)
  \/ \E r \in 0..QRandMax : GenCandidate(r)

FairAllocSpec ==
  /\ AllocSpec
  /\ WF_vars(AllocStep)
  /\ \A r \in 0..QRandMax : SF_vars(GenCandidate(r))

\* ------------------------------------------------ claims: GetUnusedFilename
\* the number of F.. directories a device holds in sequence from F00
CountBuckets(dev) ==
  CHOOSE n \in 0..MaxBuckets :
    /\ ~Exists(dev, MusicDir(n))
    /\ \A m \in 0..(n - 1) : Exists(dev, MusicDir(m))

\* C1: a non-empty path returned by GetUnusedFilename is a path for which
\* Exists is false on the device as it is at the moment of return.
C1_ReturnedPathUnused ==
  (pc = "done" /\ result # NullPath) => ~Exists(fs, result)

\* a path was returned after at least one candidate collided with a file
C1_Witness ==
  /\ pc = "done"
  /\ result # NullPath
  /\ Cardinality(tried) >= 2

\* C2: with no F00 on the device, GetUnusedFilename returns the empty path
\* with the "no directories" warning, having generated no candidate name
\* and probed nothing but F00.
C2_NoBucketsNoGeneration ==
  (pc = "done" /\ ~changed /\ ~Exists(fs0, MusicDir(0)))
    => /\ result = NullPath
       /\ warning = NoBucketsWarning
       /\ tried = {}
       /\ fileProbes = {}
       /\ dirProbes = <<MusicDir(0)>>

C2_Witness ==
  /\ pc = "done"
  /\ ~changed
  /\ ~Exists(fs0, MusicDir(0))
  /\ warning = NoBucketsWarning

\* C8: GetUnusedFilename always terminates (the filename loop gives up after
\* a bounded number of candidates).
C8_AllocateTerminates == <>(pc = "done")

FilterFlags == {"Dirs", "Files", "NoSymLinks", "Hidden", "NoDotAndDotDot"}
NoFilter == FilterFlags \cup {"otherBits"}
FilterValues == (SUBSET FilterFlags) \cup {NoFilter}

Dot == <<".">>
DotDot == <<".", ".">>
\* the names a device listing is drawn from
RawNames == {Dot, DotDot, <<".", "h">>, <<"a">>}

\* a list with an st_ifmt key whose value is empty
EmptyFmtInfo == [err |-> FALSE, infolist |-> <<"st_ifmt", "">>]
\* the answers afc_get_file_info gives for an entry
EntryInfos == {ErrInfo, DirInfo, FileInfo, LinkInfo, NoFmtInfo, BlkInfo, EmptyFmtInfo}

\* filename.startsWith(".")
StartsWithDot(fname) == Len(fname) >= 1 /\ fname[1] = "."

\* ReadDirectoryEntry with the NoSymLinks test the wrong way round
ReadDirectoryEntry_SymLinkFlag(r, f, fname, info) ==
  IF f = NoFilter THEN Append(r, fname)
  ELSE IF "NoDotAndDotDot" \in f /\ (fname = Dot \/ fname = DotDot) THEN r
  ELSE IF "Hidden" \notin f /\ StartsWithDot(fname) THEN r
  ELSE LET filetype == GetFileInfoOf(info, "st_ifmt")
       IN  IF \/ (filetype = "S_IFREG" /\ "Files" \in f)
              \/ (filetype = "S_IFDIR" /\ "Dirs" \in f)
              \/ (filetype = "S_IFLNK" /\ "NoSymLinks" \in f)
           THEN Append(r, fname)
           ELSE r

\* ReadDirectoryEntry taking whatever is not a directory for a file
ReadDirectoryEntry_NotDirIsFile(r, f, fname, info) ==
  IF f = NoFilter THEN Append(r, fname)
  ELSE IF "NoDotAndDotDot" \in f /\ (fname = Dot \/ fname = DotDot) THEN r
  ELSE IF "Hidden" \notin f /\ StartsWithDot(fname) THEN r
  ELSE LET filetype == GetFileInfoOf(info, "st_ifmt")
       IN  IF \/ (filetype # "S_IFDIR" /\ filetype # "S_IFLNK" /\ "Files" \in f)
              \/ (filetype = "S_IFDIR" /\ "Dirs" \in f)
              \/ (filetype = "S_IFLNK" /\ ~("NoSymLinks" \in f))
           THEN Append(r, fname)
           ELSE r

\* ReadDirectoryEntry with the Hidden test inverted
ReadDirectoryEntry_HiddenKept(r, f, fname, info) ==
  IF f = NoFilter THEN Append(r, fname)
  ELSE IF "NoDotAndDotDot" \in f /\ (fname = Dot \/ fname = DotDot) THEN r
  ELSE IF "Hidden" \in f /\ StartsWithDot(fname) THEN r
  ELSE LET filetype == GetFileInfoOf(info, "st_ifmt")
       IN  IF \/ (filetype = "S_IFREG" /\ "Files" \in f)
              \/ (filetype = "S_IFDIR" /\ "Dirs" \in f)
              \/ (filetype = "S_IFLNK" /\ ~("NoSymLinks" \in f))
           THEN Append(r, fname)
           ELSE r

\* the body of ReadDirectory's loop: ret after one name, info being the
\* device's answer for path + "/" + filename
ReadDirectoryEntry(r, f, fname, info) ==
  IF f = NoFilter THEN Append(r, fname)
  ELSE IF "NoDotAndDotDot" \in f /\ (fname = Dot \/ fname = DotDot) THEN r
  ELSE IF "Hidden" \notin f /\ StartsWithDot(fname) THEN r
  ELSE LET filetype == GetFileInfoOf(info, "st_ifmt")
       IN  IF \/ (filetype = "S_IFREG" /\ "Files" \in f)
              \/ (filetype = "S_IFDIR" /\ "Dirs" \in f)
              \/ (filetype = "S_IFLNK" /\ ~("NoSymLinks" \in f))
           THEN Append(r, fname)
           ELSE r

RECURSIVE ReadDirectoryLoop(_, _, _, _, _, _)
ReadDirectoryLoop(dev, path, list, i, r, f) ==
  IF i > Len(list) THEN r
  ELSE ReadDirectoryLoop(dev, path, list, i + 1,
         ReadDirectoryEntry(r, f, list[i], InfoOf(dev, Join(path, list[i]))), f)

\* ReadDirectory(path, filters) on a device whose afc_read_directory fails
\* (readFails) or hands back list
ReadDirectory(dev, path, readFails, list, f) ==
  IF readFails THEN << >> ELSE ReadDirectoryLoop(dev, path, list, 1, << >>, f)

ListInit ==
  /\ lpc = "read"
  /\ filters \in FilterValues
  /\ readErr = FALSE
  /\ rawList = << >>
  /\ infos = << >>
  /\ ret = << >>
  /\ keptAt = << >>
  /\ AllocIdle
  /\ MirrorIdle

\* afc_read_directory fails or hands back no list: return QStringList()
ReadFails ==
  /\ lpc = "read"
  /\ readErr' = TRUE
  /\ ret' = << >>
  /\ lpc' = "done"
  /\ UNCHANGED <<filters, rawList, infos, keptAt>>
  /\ UNCHANGED <<avars, mvars>>

ReadSucceeds ==
  /\ lpc = "read"
  /\ lpc' = "loop"
  /\ UNCHANGED <<filters, readErr, rawList, infos, ret, keptAt>>
  /\ UNCHANGED <<avars, mvars>>

\* one turn of the loop over the list: the next name, and the answer the
\* device has for a metadata query on it
ListEntry(fname, info) ==
  /\ lpc = "loop"
  /\ Len(rawList) < MaxEntries
  /\ rawList' = Append(rawList, fname)
  /\ infos' = Append(infos, info)
  /\ ret' = ReadDirectoryEntry(ret, filters, fname, info)
  /\ keptAt' = IF ret' # ret THEN Append(keptAt, Len(rawList) + 1) ELSE keptAt
  /\ UNCHANGED <<lpc, filters, readErr>>
  /\ UNCHANGED <<avars, mvars>>

\* *p == NULL: free(list); return ret
ListEnd ==
  /\ lpc = "loop"
  /\ lpc' = "done"
  /\ UNCHANGED <<filters, readErr, rawList, infos, ret, keptAt>>
  /\ UNCHANGED <<avars, mvars>>

ListNext ==
  \/ ReadFails
  \/ ReadSucceeds
  \/ \E fname \in RawNames : \E info \in EntryInfos : ListEntry(fname, info)
  \/ ListEnd

ListSpec == ListInit /\ [][ListNext]_vars

\* --------------------------------------------------- claims: ReadDirectory
\* the ListingFilter a QDir::Filters value stands for
IncludeHidden(f) == "Hidden" \in f
IncludeDotEntries(f) == "NoDotAndDotDot" \notin f
KindMask(f) ==
  (IF "Files" \in f THEN {"File"} ELSE {})
    \cup (IF "Dirs" \in f THEN {"Directory"} ELSE {})
    \cup (IF "NoSymLinks" \notin f THEN {"Symlink"} ELSE {})

\* the st_ifmt value of a device answer, read off its key/value pairs
\* (the last pair with that key), or Null
FmtValue(info) ==
  LET pairs == {k \in 1..(Len(info.infolist) \div 2) :
                  info.infolist[2 * k - 1] = "st_ifmt"}
  IN  IF info.err \/ pairs = {} THEN Null
      ELSE info.infolist[2 * (CHOOSE k \in pairs : \A j \in pairs : j <= k)]

\* the four-way entry kind
KindOf(info) ==
  CASE FmtValue(info) = "S_IFREG" -> "File"
    [] FmtValue(info) = "S_IFDIR" -> "Directory"
    [] FmtValue(info) = "S_IFLNK" -> "Symlink"
    [] OTHER -> "Unknown"

\* the st_ifmt query fails or returns no value
QueryFails(info) == FmtValue(info) = Null

\* the positions of the raw list a filtered listing is to keep
KeptPositions(f) ==
  {i \in 1..Len(rawList) :
     /\ ~(~IncludeDotEntries(f) /\ rawList[i] \in {Dot, DotDot})
     /\ ~(~IncludeHidden(f) /\ StartsWithDot(rawList[i]))
     /\ KindOf(infos[i]) \in KindMask(f)}

Increasing(seq) == \A i, j \in 1..Len(seq) : i < j => seq[i] < seq[j]

\* C3: with kindMask = {Directory} the result is a sub-listing of the raw
\* names, each taken from a position whose st_ifmt answer is S_IFDIR.
C3_DirectoriesOnly ==
  (lpc \in {"loop", "done"} /\ filters # NoFilter /\ KindMask(filters) = {"Directory"})
    => /\ Len(keptAt) = Len(ret)
       /\ Increasing(keptAt)
       /\ \A j \in 1..Len(ret) :
            /\ keptAt[j] \in 1..Len(rawList)
            /\ ret[j] = rawList[keptAt[j]]
            /\ KindOf(infos[keptAt[j]]) = "Directory"
            /\ FmtValue(infos[keptAt[j]]) = "S_IFDIR"

\* a directory-only listing that kept a directory and passed over others
C3_Witness ==
  /\ lpc = "done"
  /\ filters # NoFilter
  /\ KindMask(filters) = {"Directory"}
  /\ Len(ret) >= 1
  /\ Len(rawList) > Len(ret)
  /\ \E i \in 1..Len(rawList) : KindOf(infos[i]) = "Symlink" /\ rawList[i] = <<"a">>

\* C9: in a filtered listing the names kept are exactly those not dropped by
\* the dot rule or the hidden rule whose kind is in kindMask, in the order
\* the device gave them.
C9_FilterPolicy ==
  (lpc \in {"loop", "done"} /\ filters # NoFilter)
    => /\ Len(keptAt) = Len(ret)
       /\ Increasing(keptAt)
       /\ {keptAt[j] : j \in 1..Len(keptAt)} = KeptPositions(filters)
       /\ \A j \in 1..Len(ret) : ret[j] = rawList[keptAt[j]]

\* a name kept after a hidden name of a kind in the mask was dropped
C9_Witness ==
  /\ lpc = "done"
  /\ filters # NoFilter
  /\ Len(ret) >= 1
  /\ \E i \in 1..Len(rawList) :
       /\ StartsWithDot(rawList[i])
       /\ KindOf(infos[i]) \in KindMask(filters)
       /\ i \notin KeptPositions(filters)
       /\ i < keptAt[Len(keptAt)]


\* ------------------------------------------------------------- AfcTransfer
\* The header declares CopyToDevice / CopyFromDevice, the two signals, the
\* four private copy methods and important_directories_; what they do is
\* taken from the design text (TransferSession, DirectoryMirror).

TopA == <<"A">>
TopB == <<"B">>
NodeAx == Join(TopA, <<"x">>)
NodeAy == Join(TopA, <<"y">>)
NodeAyz == Join(NodeAy, <<"z">>)
NodeBw == Join(TopB, <<".", "w">>)

\* the raw names afc_read_directory (or the local file system) gives
ListingOf(d) ==
  CASE d = TopA -> <<Dot, DotDot, <<"x">>, <<"y">> >>
    [] d = NodeAy -> << <<"z">> >>
    [] d = TopB -> << <<".", "w">> >>
    [] OTHER -> << >>

SourceNodes == {NodeAx, NodeAy, NodeAyz, NodeBw}

\* the top-level directory a path lies under
TopOf(n) == <<n[1]>>

\* the path without its last "/" + name
RECURSIVE ParentOf(_)
ParentOf(n) ==
  IF n = << >> THEN << >>
  ELSE IF n[Len(n)] = "/" THEN SubSeq(n, 1, Len(n) - 1)
  ELSE ParentOf(SubSeq(n, 1, Len(n) - 1))

\* {includeHidden: true, includeDotEntries: false, kindMask: {File, Directory}}
MirrorFilter == {"Hidden", "NoDotAndDotDot", "Files", "Dirs", "NoSymLinks"}

MirrorInit ==
  /\ mpc = "NotStarted"
  /\ direction \in {"ToDevice", "FromDevice"}
  /\ tops \in {<<TopA, TopB>>, <<TopB, TopA>>, <<TopA>>}
  /\ \E ix, iy \in {FileInfo, DirInfo, LinkInfo, ErrInfo} :
       \E iz \in {FileInfo, ErrInfo, NoFmtInfo} :
         \E iw \in {FileInfo, DirInfo, EmptyFmtInfo} :
           tree = [n \in SourceNodes \cup {Join(TopA, Dot), Join(TopA, DotDot)} |->
                     CASE n = NodeAx -> ix
                       [] n = NodeAy -> iy
                       [] n = NodeAyz -> iz
                       [] n = NodeBw -> iw
                       [] OTHER -> DirInfo]
  /\ failSet \in SUBSET {n \in SourceNodes : tree[n] = FileInfo}
  /\ listFail \in {{}, {TopA}, {NodeAy}, {TopB}}
  /\ topIdx = 0
  /\ stack = << >>
  /\ pending = << >>
  /\ curDir = << >>
  /\ copied = {}
  /\ failed = {}
  /\ descended = {}
  /\ attempts = << >>
  /\ events = << >>
  /\ started = << >>
  /\ results = << >>
  /\ AllocIdle
  /\ ListIdle

\* NotStarted -> Running: the one start notification
SessionStart ==
  /\ mpc = "NotStarted"
  /\ events' = Append(events, "TaskStarted")
  /\ topIdx' = 1
  /\ mpc' = "Running"
  /\ UNCHANGED <<direction, tops, tree, failSet, listFail, stack, pending,
                 curDir, copied, failed, descended, attempts, started, results>>
  /\ UNCHANGED <<avars, lvars>>

\* copyDirection is invoked for the next top-level directory
BeginTop ==
  /\ mpc = "Running"
  /\ topIdx <= Len(tops)
  /\ started' = Append(started, tops[topIdx])
  /\ stack' = <<tops[topIdx]>>
  /\ pending' = << >>
  /\ copied' = {}
  /\ failed' = {}
  /\ mpc' = "Mirror"
  /\ UNCHANGED <<direction, tops, tree, failSet, listFail, topIdx, curDir,
                 descended, attempts, events, results>>
  /\ UNCHANGED <<avars, lvars>>

\* take the next directory off the work stack and list it
ListDir ==
  /\ mpc = "Mirror"
  /\ pending = << >>
  /\ stack # << >>
  /\ curDir' = stack[Len(stack)]
  /\ stack' = SubSeq(stack, 1, Len(stack) - 1)
  /\ descended' = descended \cup {stack[Len(stack)]}
  /\ pending' = ReadDirectory(tree, stack[Len(stack)],
                              stack[Len(stack)] \in listFail,
                              ListingOf(stack[Len(stack)]), MirrorFilter)
  /\ UNCHANGED <<mpc, direction, tops, tree, failSet, listFail, topIdx,
                 copied, failed, attempts, events, started, results>>
  /\ UNCHANGED <<avars, lvars>>

\* ProcessEntry that gives up on the directory at the first failed copy
ProcessEntry_StopOnFailure(allocOk) ==
  /\ mpc = "Mirror"
  /\ pending # << >>
  /\ LET node == Join(curDir, Head(pending))
         filetype == GetFileInfo(tree, node, "st_ifmt")
         outcome == IF direction = "ToDevice" /\ ~allocOk THEN "AllocationError"
                    ELSE IF node \in failSet THEN "CopyError::Io"
                    ELSE "copied"
     IN  /\ (direction = "FromDevice") => allocOk
         /\ (filetype # "S_IFREG") => allocOk
         /\ IF filetype = "S_IFDIR"
            THEN /\ stack' = Append(stack, node)
                 /\ pending' = Tail(pending)
                 /\ UNCHANGED <<copied, failed, attempts>>
            ELSE IF filetype = "S_IFREG"
            THEN /\ attempts' = Append(attempts, [node |-> node, outcome |-> outcome])
                 /\ copied' = IF outcome = "copied" THEN copied \cup {node} ELSE copied
                 /\ failed' = IF outcome = "copied" THEN failed ELSE failed \cup {node}
                 /\ pending' = IF outcome = "copied" THEN Tail(pending) ELSE << >>
                 /\ stack' = IF outcome = "copied" THEN stack ELSE << >>
            ELSE /\ pending' = Tail(pending)
                 /\ UNCHANGED <<stack, copied, failed, attempts>>
  /\ UNCHANGED <<mpc, direction, tops, tree, failSet, listFail, topIdx, curDir,
                 descended, events, started, results>>
  /\ UNCHANGED <<avars, lvars>>

\* handle the next entry of the listing: push a directory, copy a file
\* (to the device: under a name from the allocator, which may fail), pass
\* over anything else; a failed copy is recorded and the loop goes on
ProcessEntry(allocOk) ==
  /\ mpc = "Mirror"
  /\ pending # << >>
  /\ LET node == Join(curDir, Head(pending))
         filetype == GetFileInfo(tree, node, "st_ifmt")
         outcome == IF direction = "ToDevice" /\ ~allocOk THEN "AllocationError"
                    ELSE IF node \in failSet THEN "CopyError::Io"
                    ELSE "copied"
     IN  /\ (direction = "FromDevice") => allocOk
         /\ (filetype # "S_IFREG") => allocOk
         /\ IF filetype = "S_IFDIR"
            THEN /\ stack' = Append(stack, node)
                 /\ UNCHANGED <<copied, failed, attempts>>
            ELSE IF filetype = "S_IFREG"
            THEN /\ attempts' = Append(attempts, [node |-> node, outcome |-> outcome])
                 /\ copied' = IF outcome = "copied" THEN copied \cup {node} ELSE copied
                 /\ failed' = IF outcome = "copied" THEN failed ELSE failed \cup {node}
                 /\ UNCHANGED stack
            ELSE UNCHANGED <<stack, copied, failed, attempts>>
  /\ pending' = Tail(pending)
  /\ UNCHANGED <<mpc, direction, tops, tree, failSet, listFail, topIdx, curDir,
                 descended, events, started, results>>
  /\ UNCHANGED <<avars, lvars>>

\* EndTop that abandons the remaining top-level directories after a failure
EndTop_StopOnFailure ==
  /\ mpc = "Mirror"
  /\ pending = << >>
  /\ stack = << >>
  /\ results' = Append(results, [dir |-> tops[topIdx], copied |-> copied,
                                 failed |-> failed, ok |-> failed = {}])
  /\ topIdx' = IF failed = {} THEN topIdx + 1 ELSE Len(tops) + 1
  /\ mpc' = "Running"
  /\ UNCHANGED <<direction, tops, tree, failSet, listFail, stack, pending,
                 curDir, copied, failed, descended, attempts, events, started>>
  /\ UNCHANGED <<avars, lvars>>

\* the work stack is empty: copyDirection returns, Ok only if nothing failed
EndTop ==
  /\ mpc = "Mirror"
  /\ pending = << >>
  /\ stack = << >>
  /\ results' = Append(results, [dir |-> tops[topIdx], copied |-> copied,
                                 failed |-> failed, ok |-> failed = {}])
  /\ topIdx' = topIdx + 1
  /\ mpc' = "Running"
  /\ UNCHANGED <<direction, tops, tree, failSet, listFail, stack, pending,
                 curDir, copied, failed, descended, attempts, events, started>>
  /\ UNCHANGED <<avars, lvars>>

\* SessionFinish that reports the last directory's result only
SessionFinish_LastOnly ==
  /\ mpc = "Running"
  /\ topIdx > Len(tops)
  /\ events' = Append(events,
                 IF results[Len(results)].ok
                 THEN "CopyFinished(true)" ELSE "CopyFinished(false)")
  /\ mpc' = "Completed"
  /\ UNCHANGED <<direction, tops, tree, failSet, listFail, topIdx, stack,
                 pending, curDir, copied, failed, descended, attempts, started,
                 results>>
  /\ UNCHANGED <<avars, lvars>>

\* every top-level directory has been attempted: the one finish
\* notification, Completed or CompletedWithErrors
SessionFinish ==
  /\ mpc = "Running"
  /\ topIdx > Len(tops)
  /\ LET success == \A i \in 1..Len(results) : results[i].ok
     IN  /\ events' = Append(events,
                        IF success THEN "CopyFinished(true)" ELSE "CopyFinished(false)")
         /\ mpc' = IF success THEN "Completed" ELSE "CompletedWithErrors"
  /\ UNCHANGED <<direction, tops, tree, failSet, listFail, topIdx, stack,
                 pending, curDir, copied, failed, descended, attempts, started,
                 results>>
  /\ UNCHANGED <<avars, lvars>>

MirrorNext ==
  \/ SessionStart
  \/ BeginTop
  \/ ListDir
  \/ \E allocOk \in BOOLEAN : ProcessEntry(allocOk)
  \/ EndTop
  \/ SessionFinish

MirrorSpec == MirrorInit /\ [][MirrorNext]_vars

\* the session runs on its own worker thread, one blocking step after another
FairMirrorSpec == MirrorSpec /\ WF_vars(MirrorNext)


\* ----------------------------------------------------- claims: AfcTransfer
\* n is reached from top-level directory d through directories only
RECURSIVE ReachedFrom(_, _)
ReachedFrom(d, n) ==
  LET p == ParentOf(n)
  IN  IF p = d THEN TRUE
      ELSE IF p = << >> THEN FALSE
      ELSE KindOf(InfoOf(tree, p)) = "Directory" /\ ReachedFrom(d, p)

\* the file entries and the directories of the source tree under d
AllFiles(d) ==
  {n \in SourceNodes : KindOf(tree[n]) = "File" /\ ReachedFrom(d, n)}
AllDirs(d) ==
  {d} \cup {n \in SourceNodes : KindOf(tree[n]) = "Directory" /\ ReachedFrom(d, n)}

\* no directory between d and n (d included, n excluded) fails to list
RECURSIVE ListedFrom(_, _)
ListedFrom(d, n) ==
  LET p == ParentOf(n)
  IN  IF p = << >> THEN FALSE
      ELSE p \notin listFail /\ (p = d \/ ListedFrom(d, p))

\* the file entries under d that a traversal of d alone gets to
ListedFiles(d) == {n \in AllFiles(d) : ListedFrom(d, n)}

\* the entries under d the allocator refused a name for
AllocRefused(d) ==
  {attempts[i].node : i \in {j \in 1..Len(attempts) :
      attempts[j].outcome = "AllocationError" /\ TopOf(attempts[j].node) = d}}

\* C4: a top-level copy of a tree with N file entries, M of them with an
\* injected I/O failure (and no other fault), reports exactly those M as
\* failed and the other N - M as copied, and is Ok only if M = 0.
C4_FailedAndCopiedCounts ==
  \A i \in 1..Len(results) :
    LET d == results[i].dir
        N == Cardinality(AllFiles(d))
        M == Cardinality(AllFiles(d) \cap failSet)
    IN  (AllDirs(d) \cap listFail = {} /\ AllocRefused(d) = {})
          => /\ results[i].failed = AllFiles(d) \cap failSet
             /\ results[i].copied = AllFiles(d) \ failSet
             /\ Cardinality(results[i].failed) = M
             /\ Cardinality(results[i].copied) = N - M
             /\ results[i].ok <=> (M = 0)

\* a file was copied after an earlier file of the same tree had failed
C4_Witness ==
  /\ Len(results) >= 1
  /\ results[1].dir = TopA
  /\ AllDirs(TopA) \cap listFail = {}
  /\ AllocRefused(TopA) = {}
  /\ results[1].failed = {NodeAx}
  /\ results[1].copied = {NodeAyz}
  /\ attempts[1].node = NodeAx

C5_Invariant ==
  /\ Len(events) <= 2
  /\ (mpc = "NotStarted") <=> (events = << >>)
  /\ (mpc \in {"Running", "Mirror"}) <=> (events = <<"TaskStarted">>)
  /\ (mpc \in {"Completed", "CompletedWithErrors"}) <=> (Len(events) = 2)
  /\ Len(events) = 2
       => /\ events[1] = "TaskStarted"
          /\ events[2] \in {"CopyFinished(true)", "CopyFinished(false)"}
          /\ Len(results) = Len(tops)
          /\ started = tops
          /\ (events[2] = "CopyFinished(true)")
               <=> (\A i \in 1..Len(attempts) : attempts[i].outcome = "copied")
          /\ (mpc = "Completed") <=> (events[2] = "CopyFinished(true)")

C6_UnknownSkipped ==
  /\ \A i \in 1..Len(attempts) : ~QueryFails(InfoOf(tree, attempts[i].node))
  /\ \A d \in descended :
       d \in {tops[i] : i \in 1..Len(tops)} \/ ~QueryFails(InfoOf(tree, d))
  /\ \A i \in 1..Len(stack) :
       stack[i] \in {tops[j] : j \in 1..Len(tops)} \/ ~QueryFails(InfoOf(tree, stack[i]))
  /\ \A i \in 1..Len(pending) : ~QueryFails(InfoOf(tree, Join(curDir, pending[i])))
  /\ \A d \in descended : \A f \in FilterValues \ {NoFilter} :
       LET listing == ReadDirectory(tree, d, FALSE, ListingOf(d), f)
       IN  \A i \in 1..Len(listing) : ~QueryFails(InfoOf(tree, Join(d, listing[i])))

\* a directory holding an entry without st_ifmt was traversed and a file
\* next to that entry was copied
C6_Witness ==
  /\ mpc \in {"Completed", "CompletedWithErrors"}
  /\ QueryFails(tree[NodeAx])
  /\ TopA \in descended
  /\ NodeAy \in descended
  /\ \E i \in 1..Len(attempts) : attempts[i].node = NodeAyz

\* the outcome a top-level directory has when it is mirrored on its own
ExpectedFailed(d) ==
  (ListedFiles(d) \cap failSet) \cup AllocRefused(d)

\* the position of a top-level directory in important_directories_
TopIndex(d) == CHOOSE i \in 1..Len(tops) : tops[i] = d

\* C7: the top-level directories are taken one after the other in the
\* order given; a failure in one leaves the later ones attempted, in order,
\* each with the outcome it has on its own.
C7_SequentialIndependent ==
  /\ Len(started) <= Len(tops)
  /\ started = SubSeq(tops, 1, Len(started))
  /\ \A i \in 1..Len(results) : results[i].dir = tops[i]
  /\ IF mpc = "Mirror" THEN Len(started) = Len(results) + 1
     ELSE Len(started) = Len(results)
  /\ \A i \in 1..Len(stack) : TopOf(stack[i]) = started[Len(started)]
  /\ pending # << >> => TopOf(curDir) = started[Len(started)]
  /\ \A i, j \in 1..Len(attempts) :
       i < j => TopIndex(TopOf(attempts[i].node)) <= TopIndex(TopOf(attempts[j].node))
  /\ \A i \in 1..Len(attempts) :
       TopIndex(TopOf(attempts[i].node)) <= Len(started)
  /\ \A i \in 1..Len(results) :
       /\ results[i].failed = ExpectedFailed(results[i].dir)
       /\ results[i].copied = ListedFiles(results[i].dir) \ ExpectedFailed(results[i].dir)
  /\ mpc \in {"Completed", "CompletedWithErrors"} => Len(results) = Len(tops)

\* the second directory was mirrored in full after the first had a failure
C7_Witness ==
  /\ mpc = "CompletedWithErrors"
  /\ Len(tops) = 2
  /\ results[1].failed # {}
  /\ results[2].copied # {}
  /\ results[2].failed = {}

====
